---------------------------- MODULE Spec2Model ----------------------------
(***************************************************************************)
(* A model of nslookup.c: main's query loop, the direct UDP exchange       *)
(* res_ssend, the response parser dns_parse with its callback dns_print,   *)
(* and the reverse-name deriver reverse_lookup.                            *)
(*                                                                         *)
(* Byte offsets are 0-based as in the C code; a TLA+ sequence holding a    *)
(* buffer is indexed from 1, so r[k] of the code is response[k+1] here.    *)
(* A byte read at an offset >= rlen is outside the datagram: its value is  *)
(* whatever the memory holds, a nondeterministic choice from GarbageVals.  *)
(***************************************************************************)
EXTENDS Integers, Sequences, FiniteSets, TLC

\* ------------------------------------------------------------ constants

RR_TYPE_A == 1
RR_TYPE_CNAME == 5
RR_TYPE_PTR == 12
RR_TYPE_AAAA == 28
POLL_TIMEOUT == 5000
MAXREVLEN == 73
EXIT_SUCCESS == 0
EXIT_FAILURE == 1

\* ------------------------------------------------------------ bounds

\* Entries (questions or records) a generated response body is built from.
MaxEntries == 2
\* Bytes a generated response may lose at its end (a truncated datagram).
MaxCut == 5
\* Milliseconds that pass between two looks at the poll clock.
PollTick == 2500

\* ------------------------------------------------------------ helpers

Max(a, b) == IF a >= b THEN a ELSE b

Last(s) == s[Len(s)]

RECURSIVE Flatten(_)
Flatten(ss) == IF ss = <<>> THEN <<>> ELSE Head(ss) \o Flatten(Tail(ss))

\* The first n bytes of a datagram.
Truncate(s, n) == SubSeq(s, 1, n)

\* ------------------------------------------------------------ messages

\* The diagnostics written to the error stream.
MsgUsage == "Usage: %s [HOST] [SERVER]"
MsgResolve == "cannot resolve %s"
MsgBuild == "cannot build the query"
MsgSend == "cannot send the query"
MsgMismatch == "qsections don't match"
\* The decode diagnostic worded as the transport one.
MsgDecode_AsSend == "cannot send the query"
MsgDecode == "decode failure"
MsgSocket == "cannot create the socket"
MsgBind == "bind failure"
MsgSendto == "sendto failure"
MsgPoll == "poll timeout"
MsgRecvfrom == "recvfrom error"
MsgExpand == "dn_expand() error"


\* ------------------------------------------------------------ inputs

\* The record type numbers res_mkquery is given (ns_t_a, ns_t_aaaa, ns_t_ptr).
ns_t_a == 1
ns_t_aaaa == 28
ns_t_ptr == 12

\* The two hex digits of a byte, as written in an address.
UpperNibble(b) ==
  <<"0", "1", "2", "3", "4", "5", "6", "7", "8", "9", "a", "b", "c", "d", "e",
    "f">>[(b \div 16) + 1]
LowerNibble(b) ==
  <<"0", "1", "2", "3", "4", "5", "6", "7", "8", "9", "a", "b", "c", "d", "e",
    "f">>[(b % 16) + 1]

\* argv[1]: its text, and the address inet_pton parses it to (empty when it
\* is no literal of that family).
HostTarget == [text |-> "example.com", v4 |-> <<>>, v6 |-> <<>>]
V4Target == [text |-> "192.0.2.1", v4 |-> <<192, 0, 2, 1>>, v6 |-> <<>>]
V6Target ==
  [text |-> "2001:db8::1", v4 |-> <<>>,
   v6 |-> <<32, 1, 13, 184, 0, 0, 0, 0, 0, 0, 0, 0, 0, 0, 0, 1>>]
Targets == {HostTarget, V4Target, V6Target}

\* Octets with one, two and three decimal digits.
OctetVals == {0, 9, 10, 99, 100, 255}

\* The dotted-quad text of an IPv4 address.
V4Text(a) ==
  ToString(a[1]) \o "." \o ToString(a[2]) \o "." \o ToString(a[3]) \o "."
    \o ToString(a[4])

V4Targets ==
  {[text |-> V4Text(a), v4 |-> a, v6 |-> <<>>] : a \in [1..4 -> OctetVals]}

\* IPv6 addresses: one non-zero byte at every position, a byte pattern
\* without repetition, the all-ones address and the documentation one.
ByteVals == {1, 16, 171, 255}
V6Addrs ==
  {[k \in 1..16 |-> IF k = j THEN v ELSE 0] : j \in 1..16, v \in ByteVals}
    \cup {[k \in 1..16 |-> (k * 17 + 3) % 256], [k \in 1..16 |-> 255],
          V6Target.v6}

\* The text of an IPv6 address: eight groups of hex digits.
V6Text(a) ==
  LET hex(b) == UpperNibble(b) \o LowerNibble(b)
      group(g) == hex(a[2 * g - 1]) \o hex(a[2 * g])
  IN  group(1) \o ":" \o group(2) \o ":" \o group(3) \o ":" \o group(4) \o ":"
        \o group(5) \o ":" \o group(6) \o ":" \o group(7) \o ":" \o group(8)

V6Targets == {[text |-> V6Text(a), v4 |-> <<>>, v6 |-> a] : a \in V6Addrs}

\* Texts inet_pton takes for no address.
NonLiterals ==
  {HostTarget} \cup
  {[text |-> t, v4 |-> <<>>, v6 |-> <<>>] :
     t \in {"256.0.0.1", "1.2.3", "1.2.3.4.in-addr.arpa", "::g", "localhost"}}

\* The targets reverse_lookup is run on by itself.
RevTargets == V4Targets \cup V6Targets \cup NonLiterals

\* The argument counts tried: too few, HOST, HOST SERVER, too many.
ArgCounts == 1..4

\* What res_mkquery returns: a failure or the length of the query it built.
QlenVals == {-1, 29}

\* The transaction id res_mkquery puts in the first two bytes of a query.
QueryIds == {<<7, 1>>}

\* A byte read outside the datagram holds one of these.
GarbageVals == {0, 4, 193, 255}

\* A question: the name "a", type A, class IN.
EntQ == <<1, 97, 0, 0, 1, 0, 1>>
\* An address record whose owner is a compression pointer to offset 12.
EntA == <<192, 12, 0, 1, 0, 1, 0, 0, 0, 60, 0, 4, 10, 0, 0, 1>>
\* A canonical-name record whose target is a compression pointer.
EntCNAME == <<192, 12, 0, 5, 0, 1, 0, 0, 0, 60, 0, 2, 192, 12>>
\* A record of a type the program does not print (TXT), owner the root.
EntOther == <<0, 0, 16, 0, 1, 0, 0, 0, 60, 0, 1, 0>>
\* A record of type 257 (CAA), whose low type byte is that of an address
\* record; owner the root, four bytes of data.
EntCAA == <<0, 1, 1, 0, 1, 0, 0, 0, 60, 0, 4, 0, 1, 105, 59>>
\* An invalid pointer byte pair.
EntBad == <<193, 255>>
Entries == {EntQ, EntA, EntCNAME, EntOther, EntCAA, EntBad}

EntrySeqs == UNION {[1..n -> Entries] : n \in 0..MaxEntries}

\* The 12-byte header: id, flags (byte 3 carries the response code in its
\* low 4 bits), question count, answer count, no authority or additional.
Header(id, b3, qd, an) ==
  <<id[1], id[2], 129, b3, qd \div 256, qd % 256, an \div 256, an % 256,
    0, 0, 0, 0>>

\* Datagrams a server may send for a query with transaction id `id`:
\* every body of up to MaxEntries entries under every small pair of
\* counts, each cut short by up to MaxCut bytes.
Fuzz(id) ==
  { Truncate(m, Len(m) - cut) :
      m \in { Header(id, 128, qd, an) \o Flatten(es) :
                qd \in 0..1, an \in 0..2, es \in EntrySeqs },
      cut \in 0..MaxCut }

\* Two well-formed bodies: a question with an address record and a
\* canonical-name record, and a lone address record.
SampleBodies == {EntQ \o EntA \o EntCNAME, EntA}

\* Datagrams that differ from a well-formed reply in the header only: a
\* foreign transaction id, a response code, counts beyond the sanity bound,
\* and datagrams shorter than the id.
Variants(id) ==
  { Header(rid, b3, cnt[1], cnt[2]) \o body :
      rid \in {id, <<id[1], id[2] + 1>>, <<id[1] + 1, id[2]>>},
      b3 \in {0, 128, 2, 131},
      cnt \in {<<1, 2>>, <<0, 1>>, <<1, 64>>, <<64, 0>>, <<0, 65>>},
      body \in SampleBodies }
  \cup {<<>>, <<id[1]>>}

\* What the direct exchange may receive from a fuzzing and from a plain
\* server, and what the system resolver may hand back (the smaller set: its
\* replies reach the same parser).
DirectResponses(id, conduct) ==
  IF conduct = "fuzzing" THEN Fuzz(id) \cup Variants(id) ELSE Variants(id)
SystemResponses(id) == Variants(id)

\* ------------------------------------------------------------ reverse_lookup

Digits == <<"0", "1", "2", "3", "4", "5", "6", "7", "8", "9">>

HexDigits ==
  <<"0", "1", "2", "3", "4", "5", "6", "7", "8", "9", "a", "b", "c", "d", "e", "f">>

\* inet_pton(af, addr, &out) > 0: the text is a literal of that family.
inet_pton4(t) == t.v4 # <<>>
inet_pton6(t) == t.v6 # <<>>

\* The characters "%u" prints for n.
RECURSIVE FormatUnsigned(_)
FormatUnsigned(n) ==
  IF n < 10 THEN <<Digits[n + 1]>>
  ELSE FormatUnsigned(n \div 10) \o <<Digits[(n % 10) + 1]>>

\* The character "%x" prints for a value below 16.
FormatHex(n) == <<HexDigits[n + 1]>>

\* "%u." of an octet.
OctetFormat(b) == FormatUnsigned(b) \o <<".">>

\* The high nibble printed before the low one.
NibbleFormat_HighFirst(b) ==
  FormatHex((b \div 16) % 16) \o <<".">> \o FormatHex(b % 16) \o <<".">>

\* "%x.%x." of *arr & 15 and (*arr >> 4) & 15.
NibbleFormat(b) ==
  FormatHex(b % 16) \o <<".">> \o FormatHex((b \div 16) % 16) \o <<".">>

\* The suffixes, as characters.
InAddrArpa == <<"i", "n", "-", "a", "d", "d", "r", ".", "a", "r", "p", "a">>
Ip6Arpa == <<"i", "p", "6", ".", "a", "r", "p", "a">>

\* A buffer one byte short of the longest name and its terminator.
PtrSize_Short == MAXREVLEN - 1

\* sizeof(ptr), the buffer main hands to reverse_lookup.
PtrSize == MAXREVLEN

\* reverse_lookup's locals on entry: the capacity left (len), the index of
\* the address byte arr points at, the loop counter, the characters written
\* so far, whether a terminator follows them, and what is returned.
RevEntry(cap) ==
  [pc |-> "entry", len |-> cap, arr |-> 0, i |-> 0, buf |-> <<>>,
   term |-> FALSE, ret |-> "none"]

\* lines 191-194 and 214-215: the assertion and the choice of the family.
RevDispatch(st, t) ==
  IF st.len < MAXREVLEN THEN [st EXCEPT !.pc = "return", !.ret = "abort"]
  ELSE IF inet_pton4(t) THEN [st EXCEPT !.pc = "v4", !.arr = 3]
  ELSE IF inet_pton6(t) THEN [st EXCEPT !.pc = "v6", !.arr = 15]
  ELSE [st EXCEPT !.pc = "return", !.ret = "addr"]

\* l = snprintf(p, len, ...) printing s, the test of l, and the advance:
\* snprintf writes at most len - 1 characters and a terminator, and returns
\* the length of s.
RevPrint(st, s) ==
  LET l == Len(s)
  IN  IF l >= st.len
        THEN [st EXCEPT !.buf = @ \o SubSeq(s, 1, st.len - 1), !.term = TRUE,
                        !.pc = "return", !.ret = "addr"]
        ELSE [st EXCEPT !.buf = @ \o s, !.term = TRUE, !.arr = @ - 1,
                        !.len = @ - l, !.i = @ + 1]

\* if (len <= limit) return addr; strncpy(p, suffix, len); return buf
\* strncpy copies at most len characters of the suffix and, when the suffix
\* is shorter, fills the rest of the len bytes with terminators.
RevSuffix(st, limit, suffix) ==
  IF st.len <= limit
    THEN [st EXCEPT !.pc = "return", !.ret = "addr"]
    ELSE [st EXCEPT !.buf = @ \o SubSeq(suffix, 1, IF st.len < Len(suffix)
                                                     THEN st.len ELSE Len(suffix)),
                    !.term = st.len > Len(suffix), !.len = 0,
                    !.pc = "return", !.ret = "buf"]

\* The string a sequence of characters spells, put together by halves.
RECURSIVE CString(_)
CString(cs) ==
  IF Len(cs) = 0 THEN ""
  ELSE IF Len(cs) = 1 THEN cs[1]
  ELSE LET half == Len(cs) \div 2
       IN  CString(SubSeq(cs, 1, half)) \o CString(SubSeq(cs, half + 1, Len(cs)))

\* ------------------------------------------------------------ dns_parse

\* while (p-r < rlen && *p-1U < 127) p++;  the offset the walk stops at.
RECURSIVE Walk(_, _)
Walk(r, p) ==
  IF p < Len(r) /\ r[p + 1] >= 1 /\ r[p + 1] <= 127 THEN Walk(r, p + 1) ELSE p

\* The values a read of r[k] can produce.
Read(r, k) == IF k < Len(r) THEN {r[k + 1]} ELSE GarbageVals

\* The length check without the response-code check.
HeaderRejected_NoRcode(r) == Len(r) < 12

\* rlen < 12, or (r[3] & 15) != 0.
HeaderRejected(r) == Len(r) < 12 \/ r[4] % 16 # 0

\* int qdcount = r[4]*256 + r[5];
QdCount(r) == r[5] * 256 + r[6]

\* The answer count taken from the question count's field.
AnCount_QuestionField(r) == r[5] * 256 + r[6]

\* int ancount = r[6]*256 + r[7];
AnCount(r) == r[7] * 256 + r[8]

\* A sanity bound that lets one more entry through.
CountsRejected_OneMore(qd, an) == qd + an > 64 + 1

\* qdcount + ancount > 64
CountsRejected(qd, an) == qd + an > 64

\* *p>193 || (*p==193 && p[1]>254) || p>r+rlen-6
NameRejected(b0, b1, q, len) ==
  b0 > 193 \/ (b0 = 193 /\ b1 > 254) \/ q > len - 6

\* !!*p
NotNot(b) == IF b # 0 THEN 1 ELSE 0

\* p+len > r+rlen, with p at the record's type field.
DataRejected(t, len, n) == t + len > n

\* The record types dns_print prints.
IsAddressType(rr) == rr \in {RR_TYPE_A, RR_TYPE_AAAA}
IsNameType(rr) == rr \in {RR_TYPE_CNAME, RR_TYPE_PTR}

\* ------------------------------------------------------------ main

\* A comparison of the first byte only.
IdMismatch_FirstByte(qid, rid) == qid[1] # rid[1]

\* memcmp(current_query, response, 2) != 0
IdMismatch(qid, rid) == qid[1] # rid[1] \/ qid[2] # rid[2]

\* rlen < 0 after the exchange
TransportFailed(n) == n < 0

\* The switch selecting the other query.
CurrentQuery_Swapped(k) == 1 - k

\* The query the switch at the top of the loop selects.
CurrentQuery(k) == k

\* A wait without limit.
PollTimeoutArg_Forever == 0 - 1

\* poll's third argument, and whether a wait of t ms has used it up (a
\* negative timeout waits without limit).
PollTimeoutArg == POLL_TIMEOUT
PollExpired(t, timeout) == timeout >= 0 /\ t >= timeout

\* A failed bind that skips the close, and a timeout or a failed receive
\* that sends again.
BindFailTarget_Leak == "err"
PollFailTarget_Retry == "sendto"
RecvfromFailTarget_Retry == "sendto"

\* Where res_ssend goes when a step fails.
SocketFailTarget == "err"
BindFailTarget == "err_close"
SendtoFailTarget == "err_close"
PollFailTarget == "err_close"
RecvfromFailTarget == "err_close"

\* The positions inside res_ssend.
SsendPcs == {"res_ssend", "bind", "sendto", "poll", "recvfrom", "err_close", "err"}

\* The steps of one query.
StepNames == {"build", "send", "recv", "idcheck", "parse", "parsed"}

NoQuery == [id |-> <<0, 0>>, type |-> 0, name |-> ""]

VARIABLES
  peer,      \* the server's conduct: "fuzzing" or "plain"
  timedOut,  \* a poll of this operation has run into its timeout
  argc,      \* number of arguments, the program's name included
  argv1,     \* the target (argv[1])
  pc,        \* main's position
  rl,        \* reverse_lookup's locals
  name,      \* the name looked up
  query,     \* query[0], query[1]: id and type of each built query
  qlen,      \* length of the current query, or -1
  qlen2,     \* length of the second query, or -1
  qcount,    \* number of queries of this operation
  i,         \* loop index
  cur,       \* index of current_query
  srv,       \* the server endpoint: "indet", "ep"
  resolves,  \* successful resolve_server calls
  frees,     \* freeaddrinfo calls
  srvUses,   \* the value of srv at each exchange that read it
  fd,        \* the socket of the running res_ssend: "none", "open", "closed"
  opens,     \* sockets created
  closes,    \* close calls
  sent,      \* datagrams sent, per query
  recvd,     \* datagrams received, per query
  elapsed,   \* ms waited in poll
  rlen,      \* the exchange's return value
  response,  \* the first rlen bytes of the response buffer
  p,         \* dns_parse's cursor (offset from r)
  qdcount,   \* questions still to walk
  ancount,   \* answers still to walk
  maxRead,   \* highest offset dns_parse has read in this call, -1 if none
  calls,     \* dns_print invocations of this dns_parse call, with their outcome
  emitted,   \* records this dns_parse call has written to the output
  ret,       \* dns_parse's return value
  stderr,    \* diagnostics written so far
  status,    \* exit status, -1 while running or when killed
  steps      \* steps done for each query

vars ==
  <<peer, timedOut, argc, argv1, pc, rl, name, query, qlen, qlen2, qcount, i, cur, srv, resolves,
    frees, srvUses, fd, opens, closes, sent, recvd, elapsed, rlen, response,
    p, qdcount, ancount, maxRead, calls, emitted, ret, stderr, status, steps>>

\* Every local before its first assignment, and the counters at zero.
Blank ==
  /\ timedOut = FALSE
  /\ rl = RevEntry(PtrSize)
  /\ name = ""
  /\ query = [k \in 0..1 |-> NoQuery]
  /\ qlen = 0
  /\ qlen2 = 0
  /\ qcount = 0
  /\ i = 0
  /\ cur = 0
  /\ srv = "indet"
  /\ resolves = 0
  /\ frees = 0
  /\ srvUses = <<>>
  /\ fd = "none"
  /\ opens = 0
  /\ closes = 0
  /\ sent = [k \in 0..1 |-> 0]
  /\ recvd = [k \in 0..1 |-> 0]
  /\ elapsed = 0
  /\ rlen = 0
  /\ response = <<>>
  /\ p = 0
  /\ qdcount = 0
  /\ ancount = 0
  /\ maxRead = -1
  /\ calls = <<>>
  /\ emitted = <<>>
  /\ ret = 0
  /\ stderr = <<>>
  /\ status = -1
  /\ steps = [k \in 0..1 |-> {}]

Init ==
  /\ peer \in {"fuzzing", "plain"}
  /\ argc \in ArgCounts
  /\ argv1 \in Targets
  /\ pc = "main"
  /\ Blank

\* return EXIT_FAILURE after fprintf(stderr, msg)
Fail(msg) ==
  /\ stderr' = Append(stderr, msg)
  /\ status' = EXIT_FAILURE
  /\ pc' = "exit"

Did(k, s) == steps' = [steps EXCEPT ![k] = @ \cup s]

\* ------------------------------------------------------------ main, before the exchange

\* lines 241-245: the argument check.
Main_Args ==
  /\ pc = "main"
  /\ IF argc < 2 \/ argc > 3
       THEN Fail(MsgUsage)
       ELSE pc' = "reverse_lookup" /\ UNCHANGED <<stderr, status>>
  /\ UNCHANGED <<rl, peer, timedOut, argc, argv1, name, query, qlen, qlen2, qcount, i, cur,
       srv, resolves, frees, srvUses, fd, opens, closes, sent, recvd,
       elapsed, rlen, response, p, qdcount, ancount, maxRead, calls,
       emitted, ret, steps>>

\* The locals every step of reverse_lookup leaves alone.
RevFrame ==
  UNCHANGED <<peer, timedOut, argc, argv1, name, query, qlen, qlen2, qcount,
    i, cur, srv, resolves, frees, srvUses, fd, opens, closes, sent, recvd,
    elapsed, rlen, response, p, qdcount, ancount, maxRead, calls, emitted,
    ret, stderr, status, steps>>

\* lines 191-194, 214-215 and 236: the assertion, the two inet_pton calls,
\* and the return of the text that is no literal.
Rev_Entry ==
  /\ pc = "reverse_lookup"
  /\ rl.pc = "entry"
  /\ rl' = RevDispatch(rl, argv1)
  /\ UNCHANGED pc
  /\ RevFrame

\* lines 197-205: one turn of the loop over the four octets.
Rev_V4Octet ==
  /\ pc = "reverse_lookup"
  /\ rl.pc = "v4"
  /\ rl.i < 4
  /\ rl' = RevPrint(rl, OctetFormat(argv1.v4[rl.arr + 1]))
  /\ UNCHANGED pc
  /\ RevFrame

\* lines 207-211: the suffix of an IPv4 reverse name.
Rev_V4Suffix ==
  /\ pc = "reverse_lookup"
  /\ rl.pc = "v4"
  /\ rl.i >= 4
  /\ rl' = RevSuffix(rl, 12, InAddrArpa)
  /\ UNCHANGED pc
  /\ RevFrame

\* lines 218-227: one turn of the loop over the sixteen bytes.
Rev_V6Byte ==
  /\ pc = "reverse_lookup"
  /\ rl.pc = "v6"
  /\ rl.i < 16
  /\ rl' = RevPrint(rl, NibbleFormat(argv1.v6[rl.arr + 1]))
  /\ UNCHANGED pc
  /\ RevFrame

\* lines 229-233: the suffix of an IPv6 reverse name.
Rev_V6Suffix ==
  /\ pc = "reverse_lookup"
  /\ rl.pc = "v6"
  /\ rl.i >= 16
  /\ rl' = RevSuffix(rl, 8, Ip6Arpa)
  /\ UNCHANGED pc
  /\ RevFrame

\* line 249: name takes what reverse_lookup returns, the buffer or the
\* text it was given; a failed assertion ends the process.
Rev_Return ==
  /\ pc = "reverse_lookup"
  /\ rl.pc = "return"
  /\ IF rl.ret = "abort"
       THEN pc' = "crashed" /\ UNCHANGED name
       ELSE /\ pc' = "build"
            /\ name' = IF rl.ret = "buf" THEN CString(rl.buf) ELSE argv1.text
  /\ UNCHANGED <<rl, peer, timedOut, argc, argv1, query, qlen, qlen2, qcount,
       i, cur, srv, resolves, frees, srvUses, fd, opens, closes, sent, recvd,
       elapsed, rlen, response, p, qdcount, ancount, maxRead, calls, emitted,
       ret, stderr, status, steps>>

\* The queries of an operation: the two address types for a name that is
\* looked up as given, in the other order.
QueryTypes_Swapped(forward) ==
  IF forward THEN <<ns_t_aaaa, ns_t_a>> ELSE <<ns_t_ptr>>

\* lines 256-265: the types of the queries built, in the order of query[].
QueryTypes(forward) ==
  IF forward THEN <<ns_t_a, ns_t_aaaa>> ELSE <<ns_t_ptr>>

\* lines 251-266: build every query of the operation.  res_mkquery's result
\* and the id it picks are the resolver library's; in the pointer case
\* qlen2 is never assigned and holds any value.
Main_Build ==
  /\ pc = "build"
  /\ \E id0 \in QueryIds, id1 \in QueryIds, l1 \in QlenVals, l2 \in QlenVals :
       LET types == QueryTypes(name = argv1.text)
       IN  /\ qlen' = l1
           /\ qlen2' = l2
           /\ qcount' = Len(types)
           /\ query' = [k \in 0..1 |->
                          IF k >= Len(types) THEN query[k]
                          ELSE [id |-> IF k = 0 THEN id0 ELSE id1,
                                type |-> types[k + 1], name |-> name]]
           /\ steps' = [k \in 0..1 |->
                          IF k < Len(types) THEN {"build"} ELSE steps[k]]
  /\ i' = 0
  /\ pc' = "loop"
  /\ UNCHANGED <<rl, peer, timedOut, argc, argv1, name, cur, srv, resolves, frees,
       srvUses, fd, opens, closes, sent, recvd, elapsed, rlen, response, p,
       qdcount, ancount, maxRead, calls, emitted, ret, stderr, status>>

\* lines 268-289: the loop test, the switch that selects the query, the
\* check of its length, and the declarations of the iteration: srv is a new
\* object in each iteration, so in the second one it holds the first one's
\* value or any other.
Main_Loop ==
  /\ pc = "loop"
  /\ IF i >= qcount
       THEN /\ status' = EXIT_SUCCESS
            /\ pc' = "exit"
            /\ UNCHANGED <<cur, qlen, srv, stderr>>
       ELSE /\ cur' = CurrentQuery(i)
            /\ qlen' = IF i = 1 THEN qlen2 ELSE qlen
            /\ IF qlen' < 0
                 THEN Fail(MsgBuild) /\ UNCHANGED srv
                 ELSE /\ pc' = "resolve"
                      /\ srv' \in (IF i = 0 THEN {srv} ELSE {srv, "indet"})
                      /\ UNCHANGED <<stderr, status>>
  /\ UNCHANGED <<rl, peer, timedOut, argc, argv1, name, query, qlen2, qcount, i, resolves,
       frees, srvUses, fd, opens, closes, sent, recvd, elapsed, rlen,
       response, p, qdcount, ancount, maxRead, calls, emitted, ret, steps>>

\* Which exchange main runs: res_send with one argument, res_ssend with two.
Exchange == IF argc = 2 THEN "res_send" ELSE "res_ssend"

\* lines 29-51 and 292-305: resolve_server, in the first iteration only.
Main_Resolve ==
  /\ pc = "resolve"
  /\ IF i = 0
       THEN \E ok \in BOOLEAN :
              IF ok
                THEN /\ srv' = "ep"
                     /\ resolves' = resolves + 1
                     /\ pc' = Exchange
                     /\ UNCHANGED <<stderr, status>>
                ELSE Fail(MsgResolve) /\ UNCHANGED <<srv, resolves>>
       ELSE pc' = Exchange /\ UNCHANGED <<srv, resolves, stderr, status>>
  /\ UNCHANGED <<rl, peer, timedOut, argc, argv1, name, query, qlen, qlen2, qcount, i, cur,
       frees, srvUses, fd, opens, closes, sent, recvd, elapsed, rlen,
       response, p, qdcount, ancount, maxRead, calls, emitted, ret, steps>>

\* line 299: the system resolver's exchange: a failure, or a response.
Main_ResSend ==
  /\ pc = "res_send"
  /\ \/ rlen' = -1 /\ response' = <<>> /\ UNCHANGED steps
     \/ \E r \in SystemResponses(query[cur].id) :
          /\ response' = r
          /\ rlen' = Len(r)
          /\ Did(cur, {"send", "recv"})
  /\ pc' = "free"
  /\ UNCHANGED <<rl, peer, timedOut, argc, argv1, name, query, qlen, qlen2, qcount, i, cur,
       srv, resolves, frees, srvUses, fd, opens, closes, sent, recvd,
       elapsed, p, qdcount, ancount, maxRead, calls, emitted, ret, stderr,
       status>>

\* ------------------------------------------------------------ res_ssend

\* fprintf(stderr, msg); goto target;
Goto(msg, target) == stderr' = Append(stderr, msg) /\ pc' = target

\* lines 56-65: read srv->ai_family and create the socket. Reading through
\* an indeterminate srv ends the process.
Ssend_Socket ==
  /\ pc = "res_ssend"
  /\ srvUses' = Append(srvUses, srv)
  /\ IF srv # "ep"
       THEN pc' = "crashed" /\ UNCHANGED <<fd, opens, stderr>>
       ELSE \E ok \in BOOLEAN :
              IF ok
                THEN /\ fd' = "open"
                     /\ opens' = opens + 1
                     /\ pc' = "bind"
                     /\ UNCHANGED stderr
                ELSE /\ Goto(MsgSocket, SocketFailTarget)
                     /\ fd' = "none"
                     /\ UNCHANGED opens
  /\ UNCHANGED <<rl, peer, timedOut, argc, argv1, name, query, qlen, qlen2, qcount, i, cur,
       srv, resolves, frees, closes, sent, recvd, elapsed, rlen, response,
       p, qdcount, ancount, maxRead, calls, emitted, ret, status, steps>>

\* lines 67-70
Ssend_Bind ==
  /\ pc = "bind"
  /\ \E ok \in BOOLEAN :
       IF ok THEN pc' = "sendto" /\ UNCHANGED stderr
       ELSE Goto(MsgBind, BindFailTarget)
  /\ UNCHANGED <<rl, peer, timedOut, argc, argv1, name, query, qlen, qlen2, qcount, i, cur,
       srv, resolves, frees, srvUses, fd, opens, closes, sent, recvd,
       elapsed, rlen, response, p, qdcount, ancount, maxRead, calls,
       emitted, ret, status, steps>>

\* lines 72-78
Ssend_Sendto ==
  /\ pc = "sendto"
  /\ \E ok \in BOOLEAN :
       IF ok
         THEN /\ sent' = [sent EXCEPT ![cur] = @ + 1]
              /\ Did(cur, {"send"})
              /\ elapsed' = 0
              /\ pc' = "poll"
              /\ UNCHANGED stderr
         ELSE /\ Goto(MsgSendto, SendtoFailTarget)
              /\ UNCHANGED <<sent, steps, elapsed>>
  /\ UNCHANGED <<rl, peer, timedOut, argc, argv1, name, query, qlen, qlen2, qcount, i, cur,
       srv, resolves, frees, srvUses, fd, opens, closes, recvd, rlen,
       response, p, qdcount, ancount, maxRead, calls, emitted, ret, status>>

\* lines 80-87, poll returning > 0: the socket has an event before the
\* timeout (a datagram, or an error the receive then reports).
Ssend_PollReady ==
  /\ pc = "poll"
  /\ ~PollExpired(elapsed, PollTimeoutArg)
  /\ pc' = "recvfrom"
  /\ UNCHANGED <<rl, peer, timedOut, argc, argv1, name, query, qlen, qlen2, qcount, i, cur,
       srv, resolves, frees, srvUses, fd, opens, closes, sent, recvd,
       elapsed, rlen, response, p, qdcount, ancount, maxRead, calls,
       emitted, ret, stderr, status, steps>>

\* Time passes while poll waits.
Ssend_PollTick ==
  /\ pc = "poll"
  /\ ~PollExpired(elapsed, PollTimeoutArg)
  /\ elapsed < 2 * POLL_TIMEOUT
  /\ elapsed' = elapsed + PollTick
  /\ UNCHANGED <<rl, peer, timedOut, argc, argv1, pc, name, query, qlen, qlen2, qcount, i, cur,
       srv, resolves, frees, srvUses, fd, opens, closes, sent, recvd, rlen,
       response, p, qdcount, ancount, maxRead, calls, emitted, ret, stderr,
       status, steps>>

\* lines 84-87, poll returning 0: the timeout has passed.
Ssend_PollTimeout ==
  /\ pc = "poll"
  /\ PollExpired(elapsed, PollTimeoutArg)
  /\ Goto(MsgPoll, PollFailTarget)
  /\ timedOut' = TRUE
  /\ UNCHANGED <<rl, peer, argc, argv1, name, query, qlen, qlen2, qcount, i, cur,
       srv, resolves, frees, srvUses, fd, opens, closes, sent, recvd,
       elapsed, rlen, response, p, qdcount, ancount, maxRead, calls,
       emitted, ret, status, steps>>

\* lines 84-87, poll returning -1.
Ssend_PollError ==
  /\ pc = "poll"
  /\ ~PollExpired(elapsed, PollTimeoutArg)
  /\ Goto(MsgPoll, PollFailTarget)
  /\ UNCHANGED <<rl, peer, timedOut, argc, argv1, name, query, qlen, qlen2, qcount, i, cur,
       srv, resolves, frees, srvUses, fd, opens, closes, sent, recvd,
       elapsed, rlen, response, p, qdcount, ancount, maxRead, calls,
       emitted, ret, status, steps>>

\* lines 89-98: receive one datagram, close the socket and return its
\* length; or fail.
Ssend_Recvfrom ==
  /\ pc = "recvfrom"
  /\ \/ /\ Goto(MsgRecvfrom, RecvfromFailTarget)
        /\ UNCHANGED <<response, rlen, recvd, steps, fd, closes, elapsed>>
     \/ \E r \in DirectResponses(query[cur].id, peer) :
          /\ response' = r
          /\ rlen' = Len(r)
          /\ recvd' = [recvd EXCEPT ![cur] = @ + 1]
          /\ Did(cur, {"recv"})
          /\ fd' = "closed"
          /\ closes' = closes + 1
          /\ elapsed' = 0
          /\ pc' = "free"
          /\ UNCHANGED stderr
  /\ UNCHANGED <<rl, peer, timedOut, argc, argv1, name, query, qlen, qlen2, qcount, i, cur,
       srv, resolves, frees, srvUses, opens, sent, p, qdcount, ancount,
       maxRead, calls, emitted, ret, status>>

\* lines 100-101
Ssend_ErrClose ==
  /\ pc = "err_close"
  /\ fd' = "closed"
  /\ closes' = closes + 1
  /\ pc' = "err"
  /\ UNCHANGED <<rl, peer, timedOut, argc, argv1, name, query, qlen, qlen2, qcount, i, cur,
       srv, resolves, frees, srvUses, opens, sent, recvd, elapsed, rlen,
       response, p, qdcount, ancount, maxRead, calls, emitted, ret, stderr,
       status, steps>>

\* lines 102-103
Ssend_Err ==
  /\ pc = "err"
  /\ rlen' = -1
  /\ response' = <<>>
  /\ elapsed' = 0
  /\ pc' = "free"
  /\ UNCHANGED <<rl, peer, timedOut, argc, argv1, name, query, qlen, qlen2, qcount, i, cur,
       srv, resolves, frees, srvUses, fd, opens, closes, sent, recvd, p,
       qdcount, ancount, maxRead, calls, emitted, ret, stderr, status,
       steps>>

\* ------------------------------------------------------------ main, after the exchange

\* lines 313-316: in the last iteration, release the endpoint. Releasing
\* an indeterminate srv ends the process.
Main_Free ==
  /\ pc = "free"
  /\ IF i = qcount - 1
       THEN IF srv # "ep"
              THEN pc' = "crashed" /\ UNCHANGED <<srv, frees>>
              ELSE srv' = "freed" /\ frees' = frees + 1 /\ pc' = "check"
       ELSE pc' = "check" /\ UNCHANGED <<srv, frees>>
  /\ UNCHANGED <<rl, peer, timedOut, argc, argv1, name, query, qlen, qlen2, qcount, i, cur,
       resolves, srvUses, fd, opens, closes, sent, recvd, elapsed, rlen,
       response, p, qdcount, ancount, maxRead, calls, emitted, ret, stderr,
       status, steps>>

\* lines 318-321
Main_CheckRlen ==
  /\ pc = "check"
  /\ IF TransportFailed(rlen)
       THEN Fail(MsgSend)
       ELSE pc' = "idcheck" /\ UNCHANGED <<stderr, status>>
  /\ UNCHANGED <<rl, peer, timedOut, argc, argv1, name, query, qlen, qlen2, qcount, i, cur,
       srv, resolves, frees, srvUses, fd, opens, closes, sent, recvd,
       elapsed, rlen, response, p, qdcount, ancount, maxRead, calls,
       emitted, ret, steps>>

\* lines 323-327: compare the first two bytes of query and response.
Main_IdCheck ==
  /\ pc = "idcheck"
  /\ \E b0 \in Read(response, 0), b1 \in Read(response, 1) :
       IF IdMismatch(query[cur].id, <<b0, b1>>)
         THEN Fail(MsgMismatch) /\ UNCHANGED steps
         ELSE /\ pc' = "dns_parse"
              /\ Did(cur, {"idcheck"})
              /\ UNCHANGED <<stderr, status>>
  /\ UNCHANGED <<rl, peer, timedOut, argc, argv1, name, query, qlen, qlen2, qcount, i, cur,
       srv, resolves, frees, srvUses, fd, opens, closes, sent, recvd,
       elapsed, rlen, response, p, qdcount, ancount, maxRead, calls,
       emitted, ret>>

\* ------------------------------------------------------------ dns_parse and dns_print

\* return -1
ParseFail == ret' = -1 /\ pc' = "decode"

\* lines 141-157: the header checks.
Parse_Header ==
  /\ pc = "dns_parse"
  /\ Did(cur, {"parse"})
  /\ calls' = <<>>
  /\ emitted' = <<>>
  /\ IF HeaderRejected(response)
       THEN /\ ParseFail
            /\ maxRead' = IF rlen < 12 THEN -1 ELSE 3
            /\ UNCHANGED <<p, qdcount, ancount>>
       ELSE LET qd == QdCount(response)
                an == AnCount(response)
            IN  /\ maxRead' = 7
                /\ IF CountsRejected(qd, an)
                     THEN ParseFail /\ UNCHANGED <<p, qdcount, ancount>>
                     ELSE /\ p' = 12
                          /\ qdcount' = qd
                          /\ ancount' = an
                          /\ pc' = "walk"
                          /\ UNCHANGED ret
  /\ UNCHANGED <<rl, peer, timedOut, argc, argv1, name, query, qlen, qlen2, qcount, i, cur,
       srv, resolves, frees, srvUses, fd, opens, closes, sent, recvd,
       elapsed, rlen, response, stderr, status>>

\* lines 158-166: one question entry.
Parse_Question ==
  /\ pc = "walk"
  /\ qdcount # 0
  /\ LET q == Walk(response, p)
     IN  \E b0 \in Read(response, q) :
         \E b1 \in (IF b0 = 193 THEN Read(response, q + 1) ELSE {0}) :
           /\ maxRead' = Max(maxRead, IF b0 = 193 THEN q + 1 ELSE q)
           /\ IF NameRejected(b0, b1, q, rlen)
                THEN ParseFail /\ UNCHANGED <<p, qdcount>>
                ELSE /\ p' = q + 5 + NotNot(b0)
                     /\ qdcount' = qdcount - 1
                     /\ UNCHANGED <<ret, pc>>
  /\ UNCHANGED <<rl, peer, timedOut, argc, argv1, name, query, qlen, qlen2, qcount, i, cur,
       srv, resolves, frees, srvUses, fd, opens, closes, sent, recvd,
       elapsed, rlen, response, ancount, calls, emitted, stderr, status,
       steps>>

\* lines 20-27: the bytes inet_ntop reads at the record's data to print an
\* address of the family print_address is given: AF_INET for RR_TYPE_A,
\* AF_INET6 otherwise.
AddressBytes(rr) == IF rr = RR_TYPE_A THEN 4 ELSE 16

\* lines 106-138: dns_print for a record of type rr. dn_expand is the
\* resolver library's: each call succeeds or fails, and it is given the
\* end of the message. The result is the return value, the records written,
\* the diagnostics, and the bytes read at the record's data without regard to
\* its length.
dns_print(rr, e1, e2) ==
  IF ~e1 THEN [rv |-> -1, out |-> <<>>, err |-> <<MsgExpand>>, nread |-> 0]
  ELSE IF IsAddressType(rr)
    THEN [rv |-> 0, out |-> <<[rr |-> rr, whole |-> TRUE]>>, err |-> <<>>,
          nread |-> AddressBytes(rr)]
  ELSE IF IsNameType(rr)
    THEN IF e2
           THEN [rv |-> 0, out |-> <<[rr |-> rr, whole |-> TRUE]>>, err |-> <<>>,
                 nread |-> 0]
           ELSE [rv |-> -1, out |-> <<[rr |-> rr, whole |-> FALSE]>>,
                 err |-> <<MsgExpand>>, nread |-> 0]
  ELSE [rv |-> 0, out |-> <<>>, err |-> <<>>, nread |-> 0]

\* lines 168-185: one answer record, with its callback.
Parse_Answer ==
  /\ pc = "walk"
  /\ qdcount = 0
  /\ ancount # 0
  /\ LET q == Walk(response, p)
     IN  \E b0 \in Read(response, q) :
         \E b1 \in (IF b0 = 193 THEN Read(response, q + 1) ELSE {0}) :
           IF NameRejected(b0, b1, q, rlen)
             THEN /\ ParseFail
                  /\ maxRead' = Max(maxRead, IF b0 = 193 THEN q + 1 ELSE q)
                  /\ UNCHANGED <<p, ancount, calls, emitted, stderr>>
             ELSE LET t == q + 1 + NotNot(b0)
                  IN  \E b8 \in Read(response, t + 8), b9 \in Read(response, t + 9) :
                        LET len == b8 * 256 + b9
                        IN  /\ maxRead' = Max(maxRead, t + 9)
                            /\ IF DataRejected(t, len, rlen)
                                 THEN /\ ParseFail
                                      /\ UNCHANGED <<p, ancount, calls, emitted, stderr>>
                                 ELSE \E rr \in Read(response, t + 1), e1 \in BOOLEAN,
                                         e2 \in BOOLEAN :
                                        LET res == dns_print(rr, e1, e2)
                                        IN  /\ calls' = Append(calls,
                                                 [rr |-> rr, as |-> p, data |-> t + 10,
                                                  len |-> len, rv |-> res.rv,
                                                  printed |-> res.out # <<>>,
                                                  nread |-> res.nread])
                                            /\ emitted' = emitted \o res.out
                                            /\ stderr' = stderr \o res.err
                                            /\ IF res.rv < 0
                                                 THEN ParseFail /\ UNCHANGED <<p, ancount>>
                                                 ELSE /\ p' = t + 10 + len
                                                      /\ ancount' = ancount - 1
                                                      /\ UNCHANGED <<ret, pc>>
  /\ UNCHANGED <<rl, peer, timedOut, argc, argv1, name, query, qlen, qlen2, qcount, i, cur,
       srv, resolves, frees, srvUses, fd, opens, closes, sent, recvd,
       elapsed, rlen, response, qdcount, status, steps>>

\* line 186
Parse_Return ==
  /\ pc = "walk"
  /\ qdcount = 0
  /\ ancount = 0
  /\ ret' = 0
  /\ pc' = "decode"
  /\ UNCHANGED <<rl, peer, timedOut, argc, argv1, name, query, qlen, qlen2, qcount, i, cur,
       srv, resolves, frees, srvUses, fd, opens, closes, sent, recvd,
       elapsed, rlen, response, p, qdcount, ancount, maxRead, calls,
       emitted, stderr, status, steps>>

\* lines 329-334: the decode check and the end of the iteration, where the
\* iteration's objects (response, rlen) and the call's locals end.
Main_Decode ==
  /\ pc = "decode"
  /\ IF ret < 0
       THEN /\ Fail(MsgDecode)
            /\ UNCHANGED <<i, steps, rlen, response, p, qdcount, ancount, maxRead,
                           calls, emitted, ret>>
       ELSE /\ Did(cur, {"parsed"})
            /\ i' = i + 1
            /\ pc' = "loop"
            /\ rlen' = 0
            /\ response' = <<>>
            /\ p' = 0
            /\ qdcount' = 0
            /\ ancount' = 0
            /\ maxRead' = -1
            /\ calls' = <<>>
            /\ emitted' = <<>>
            /\ ret' = 0
            /\ UNCHANGED <<stderr, status>>
  /\ UNCHANGED <<rl, peer, timedOut, argc, argv1, name, query, qlen, qlen2, qcount, cur, srv,
       resolves, frees, srvUses, fd, opens, closes, sent, recvd, elapsed>>

\* ------------------------------------------------------------ specification

\* The steps of reverse_lookup.
ReverseLookup ==
  \/ Rev_Entry
  \/ Rev_V4Octet
  \/ Rev_V4Suffix
  \/ Rev_V6Byte
  \/ Rev_V6Suffix
  \/ Rev_Return

\* The steps the process itself takes.
Program ==
  \/ Main_Args
  \/ ReverseLookup
  \/ Main_Build
  \/ Main_Loop
  \/ Main_Resolve
  \/ Main_ResSend
  \/ Ssend_Socket
  \/ Ssend_Bind
  \/ Ssend_Sendto
  \/ Ssend_PollTimeout
  \/ Ssend_Recvfrom
  \/ Ssend_ErrClose
  \/ Ssend_Err
  \/ Main_Free
  \/ Main_CheckRlen
  \/ Main_IdCheck
  \/ Parse_Header
  \/ Parse_Question
  \/ Parse_Answer
  \/ Parse_Return
  \/ Main_Decode

\* The steps of the network and the clock.
Environment ==
  \/ Ssend_PollReady
  \/ Ssend_PollError
  \/ Ssend_PollTick

Next == Program \/ Environment

Spec == Init /\ [][Next]_vars

\* reverse_lookup by itself, on every target of RevTargets: the state in
\* which main calls it, and its steps.
RevInit ==
  /\ peer = "plain"
  /\ argc = 2
  /\ argv1 \in RevTargets
  /\ pc = "reverse_lookup"
  /\ Blank
RevNext == ReverseLookup
RevSpec == RevInit /\ [][RevNext]_vars

\* The process keeps running and the clock keeps advancing; the network
\* owes nothing.
\* The same with a plain server only.
InitPlain == Init /\ peer = "plain"
FairSpec ==
  InitPlain /\ [][Next]_vars /\ WF_vars(Program) /\ WF_vars(Ssend_PollTick)

\* ------------------------------------------------------------ claims

\* dns_parse is running or has just returned.
InParse == pc \in {"walk", "decode"}

\* C1: dns_parse never reads a byte at an offset >= rlen, and a parse that
\* succeeds has consumed only entries that lie inside the first rlen bytes
\* (counts that claim more than the buffer holds make it fail).
C1_ReadsInsideBuffer ==
  InParse =>
    /\ maxRead < rlen
    /\ (pc = "decode" /\ ret = 0 => p <= rlen)

\* C2: when dns_parse returns failure, it has written no record of that
\* response to the output.
C2_NoPartialEmission ==
  pc = "decode" /\ ret < 0 => emitted = <<>>

\* The response main holds carries both id bytes and they differ from the
\* query's.
HoldsForeignReply ==
  /\ pc \in {"free", "check", "idcheck", "dns_parse", "walk", "decode", "exit", "crashed"}
  /\ rlen >= 2
  /\ <<response[1], response[2]>> # query[cur].id

\* C3: a response whose first two bytes differ from the query's is never
\* handed to dns_parse, no record of it is written, and the operation ends
\* in failure with the mismatch diagnostic, which is not the transport one.
C3_MismatchRejected ==
  HoldsForeignReply =>
    /\ pc \notin {"dns_parse", "walk", "decode"}
    /\ "parse" \notin steps[cur]
    /\ calls = <<>> /\ emitted = <<>>
    /\ pc = "exit" =>
         /\ status = EXIT_FAILURE
         /\ Last(stderr) = MsgMismatch
         /\ Last(stderr) # MsgSend

\* A foreign reply with a well-formed body of three entries was rejected.
C3_Witness ==
  /\ HoldsForeignReply
  /\ pc = "exit"
  /\ rlen > 12
  /\ response[4] % 16 = 0
  /\ Last(stderr) = MsgMismatch

\* The header of the response is one dns_parse must reject.
BadHeader == rlen < 12 \/ response[4] % 16 # 0

\* C4: a response shorter than 12 bytes or with a non-zero low nibble in
\* byte 3 makes dns_parse fail before it walks any entry (it reads nothing
\* past byte 3 and moves no cursor) and before any callback.
C4_HeaderRejectedFirst ==
  InParse /\ BadHeader =>
    /\ pc = "decode"
    /\ ret = -1
    /\ maxRead <= 3
    /\ calls = <<>> /\ emitted = <<>>

\* A 12-byte-or-longer response with a response code and a non-zero
\* question count was rejected.
C4_Witness ==
  /\ pc = "decode"
  /\ rlen >= 12
  /\ response[4] % 16 # 0
  /\ response[6] > 0
  /\ ret = -1

\* C5: the wait in poll ends (the exchange returns), and once the timeout
\* has been run into the exchange returns -1 and the operation exits with
\* failure.
C5_PollTerminates ==
  /\ (pc = "poll") ~> (pc \notin SsendPcs)
  /\ timedOut ~> (pc = "exit" /\ status = EXIT_FAILURE)
  /\ [](timedOut /\ pc \notin SsendPcs => rlen = -1)

\* The operation has exited after a poll timeout.
C5_Witness ==
  /\ timedOut
  /\ pc = "exit"
  /\ status = EXIT_FAILURE
  /\ Last(stderr) = MsgSend

\* C6: in a direct exchange each query is sent at most once and at most
\* one datagram is received for it; every send of the operation goes
\* through the one transport; and when the operation has failed, no query
\* after the failed one has been sent.
C6_SingleShot ==
  /\ \A k \in 0..1 : sent[k] <= 1 /\ recvd[k] <= 1 /\ recvd[k] <= sent[k]
  /\ argc = 3 => \A k \in 0..1 : ("send" \in steps[k]) = (sent[k] = 1)
  /\ pc = "exit" /\ status = EXIT_FAILURE =>
       \A k \in 0..1 : k > i => sent[k] = 0 /\ recvd[k] = 0 /\ "send" \notin steps[k]

\* The first of two queries timed out and the second was never sent.
C6_Witness ==
  /\ pc = "exit"
  /\ timedOut
  /\ qcount = 2
  /\ sent[0] = 1 /\ recvd[0] = 0
  /\ sent[1] = 0

\* C7: res_ssend closes the socket it created exactly once before it
\* returns, never earlier, and never calls close when no socket was
\* created.
C7_SocketClosedOnce ==
  /\ closes <= opens
  /\ pc \notin SsendPcs => fd # "open" /\ closes = opens
  /\ pc \in {"bind", "sendto", "poll", "recvfrom", "err_close"} =>
       fd = "open" /\ closes = opens - 1
  /\ pc = "err" => fd # "open" /\ closes = opens

\* res_ssend has returned -1 after a socket was created and closed.
C7_Witness ==
  /\ pc = "free"
  /\ rlen = -1
  /\ opens = 1 /\ closes = 1
  /\ fd = "closed"

\* C8: the endpoint resolved in the first iteration is the one every
\* exchange uses, it is released exactly once on every path that ends the
\* operation, and it is not used after its release.
C8_EndpointReleasedOnce ==
  /\ frees <= 1
  /\ \A k \in 1..Len(srvUses) : srvUses[k] = "ep"
  /\ pc = "exit" /\ resolves = 1 => frees = 1

\* The steps of a query that follow its build.
ExchangeSteps == {"send", "recv", "idcheck", "parse", "parsed"}

\* C9 as stated: no step of the second query, its build included, occurs
\* before the first query's response has been fully parsed.
C9_BuildSerialized ==
  steps[1] # {} => "parsed" \in steps[0]

\* C9 as amended: both queries are built before the first is sent; no
\* send, receive, id check or parse of the second query occurs before the
\* first query's response has been fully parsed; and the steps of each
\* query occur in order.
C9_ExchangesSerialized ==
  /\ steps[1] \cap ExchangeSteps # {} => "parsed" \in steps[0]
  /\ qcount = 2 /\ steps[0] # {} => "build" \in steps[1]
  /\ \A k \in 0..1 :
       /\ steps[k] # {} => "build" \in steps[k]
       /\ "recv" \in steps[k] => "send" \in steps[k]
       /\ "idcheck" \in steps[k] => "recv" \in steps[k]
       /\ "parse" \in steps[k] => "idcheck" \in steps[k]
       /\ "parsed" \in steps[k] => "parse" \in steps[k]

\* The second query has been sent after the first was parsed.
C9_Witness ==
  /\ qcount = 2
  /\ "parsed" \in steps[0]
  /\ "send" \in steps[1]
  /\ "recv" \notin steps[1]

\* The last diagnostic written, if any.
LastDiag == IF stderr = <<>> THEN "" ELSE Last(stderr)

\* The six fatal conditions, read off the state the operation ended in.
BadArgs == argc < 2 \/ argc > 3
BuildFailed == ~BadArgs /\ qlen < 0
Unresolvable == ~BadArgs /\ qlen >= 0 /\ resolves = 0
TransportFailure == resolves = 1 /\ qlen >= 0 /\ rlen < 0
Mismatched ==
  /\ resolves = 1 /\ qlen >= 0 /\ rlen >= 0
  /\ i < qcount
  /\ "recv" \in steps[cur] /\ "parse" \notin steps[cur]
  /\ rlen >= 2 => <<response[1], response[2]>> # query[cur].id
DecodeFailed == "parse" \in steps[cur] /\ "parsed" \notin steps[cur] /\ ret < 0

\* C10: the process exits with success only if every query was built,
\* exchanged, id-matched and decoded; each of the six fatal conditions ends
\* it with a non-zero status; and each is reported with a diagnostic that
\* no other condition is reported with.
C10_ExitContract ==
  pc = "exit" =>
    /\ status \in {EXIT_SUCCESS, EXIT_FAILURE}
    /\ status = EXIT_SUCCESS =>
         /\ qcount >= 1 /\ resolves = 1
         /\ \A k \in 0..(qcount - 1) : steps[k] = StepNames
         /\ ~BadArgs /\ ~BuildFailed /\ ~Unresolvable /\ ~TransportFailure
         /\ ~Mismatched /\ ~DecodeFailed
    /\ BadArgs <=> status = EXIT_FAILURE /\ LastDiag = MsgUsage
    /\ BuildFailed <=> status = EXIT_FAILURE /\ LastDiag = MsgBuild
    /\ Unresolvable <=> status = EXIT_FAILURE /\ LastDiag = MsgResolve
    /\ TransportFailure <=> status = EXIT_FAILURE /\ LastDiag = MsgSend
    /\ Mismatched <=> status = EXIT_FAILURE /\ LastDiag = MsgMismatch
    /\ DecodeFailed <=> status = EXIT_FAILURE /\ LastDiag = MsgDecode
    /\ status = EXIT_FAILURE =>
         BadArgs \/ BuildFailed \/ Unresolvable \/ TransportFailure
           \/ Mismatched \/ DecodeFailed

\* The first query succeeded and the second ended in a decode failure.
C10_Witness ==
  /\ pc = "exit"
  /\ status = EXIT_FAILURE
  /\ i = 1
  /\ DecodeFailed
  /\ LastDiag = MsgDecode

\* ------------------------------------------------------------ C11

\* The reverse-zone name of an IPv4 address a.b.c.d, as the specification
\* words it: d.c.b.a.in-addr.arpa, the octets in decimal.
ReverseNameV4(a) ==
  ToString(a[4]) \o "." \o ToString(a[3]) \o "." \o ToString(a[2]) \o "."
    \o ToString(a[1]) \o "." \o "in-addr.arpa"

\* Nibble k (0..31) of the IPv6 reverse name of a, with its dot: the bytes
\* from the last to the first, the low nibble of each first.
ReverseNibble(a, k) ==
  LET byte == a[16 - (k \div 2)]
  IN  (IF k % 2 = 0 THEN LowerNibble(byte) ELSE UpperNibble(byte)) \o "."

\* The nibbles lo..hi of the reverse name, put together by halves.
RECURSIVE ReverseNibbles(_, _, _)
ReverseNibbles(a, lo, hi) ==
  IF lo = hi THEN ReverseNibble(a, lo)
  ELSE LET mid == (lo + hi) \div 2
       IN  ReverseNibbles(a, lo, mid) \o ReverseNibbles(a, mid + 1, hi)

ReverseNameV6(a) == ReverseNibbles(a, 0, 31) \o "ip6.arpa"

\* C11: for every valid literal address reverse_lookup returns the buffer,
\* terminated, holding the reverse-zone name: d.c.b.a.in-addr.arpa for the
\* IPv4 address a.b.c.d, and for an IPv6 address its 32 nibbles from the
\* last byte to the first, low nibble first, each followed by a dot, then
\* ip6.arpa.
C11_ReverseName ==
  rl.pc = "return" =>
    /\ inet_pton4(argv1) =>
         /\ rl.ret = "buf"
         /\ rl.term
         /\ CString(rl.buf) = ReverseNameV4(argv1.v4)
    /\ ~inet_pton4(argv1) /\ inet_pton6(argv1) =>
         /\ rl.ret = "buf"
         /\ rl.term
         /\ CString(rl.buf) = ReverseNameV6(argv1.v6)

\* 2001:db8::1 has been turned into its reverse name.
C11_Witness ==
  /\ argv1.v6 = V6Target.v6
  /\ rl.pc = "return"
  /\ rl.ret = "buf"
  /\ CString(rl.buf) =
       "1.0.0.0.0.0.0.0.0.0.0.0.0.0.0.0.0.0.0.0.0.0.0.0.8.b.d.0.1.0.0.2.ip6.arpa"

\* ------------------------------------------------------------ C19

\* The bytes of the buffer written so far, the terminator included.
BytesUsed == Len(rl.buf) + (IF rl.term THEN 1 ELSE 0)

\* C19: with the buffer main passes, reverse_lookup never takes the
\* overflow return for a valid literal: inside the loops the capacity left
\* and the bytes used add up to the 73 of the buffer with at least one byte
\* left, the name and its terminator fit, and the buffer is returned.
C19_NoOverflowFallback ==
  inet_pton4(argv1) \/ inet_pton6(argv1) =>
    /\ rl.ret \notin {"addr", "abort"}
    /\ BytesUsed <= MAXREVLEN
    /\ rl.pc \in {"v4", "v6"} => rl.len >= 1 /\ Len(rl.buf) + rl.len = MAXREVLEN
    /\ rl.pc = "return" => rl.ret = "buf" /\ rl.term

\* An IPv6 reverse name has filled the buffer to its last byte.
C19_Witness ==
  /\ inet_pton6(argv1)
  /\ rl.pc = "return"
  /\ rl.ret = "buf"
  /\ BytesUsed = MAXREVLEN

\* ------------------------------------------------------------ C12

\* The queries of the operation have been built.
Built == pc \notin {"main", "reverse_lookup", "build"} /\ qcount > 0

\* Query k has been handed to an exchange.
Issued(k) == "send" \in steps[k]

\* C12: a target that is no literal is looked up under its own text with
\* exactly two queries, the A query first and the AAAA query second; a
\* literal is looked up with exactly one query, of type PTR, for its
\* reverse name.  No query is issued twice, the second never before the
\* first, and an operation that ends in success has issued all of them.
C12_QueriesForTarget ==
  /\ Built /\ ~inet_pton4(argv1) /\ ~inet_pton6(argv1) =>
       /\ name = argv1.text
       /\ qcount = 2
       /\ query[0].type = 1 /\ query[0].name = argv1.text
       /\ query[1].type = 28 /\ query[1].name = argv1.text
       /\ Issued(1) => Issued(0)
       /\ status = EXIT_SUCCESS => Issued(0) /\ Issued(1)
  /\ Built /\ (inet_pton4(argv1) \/ inet_pton6(argv1)) =>
       /\ name = (IF inet_pton4(argv1) THEN ReverseNameV4(argv1.v4)
                  ELSE ReverseNameV6(argv1.v6))
       /\ qcount = 1
       /\ query[0].type = 12 /\ query[0].name = name
       /\ ~Issued(1) /\ query[1] = NoQuery
       /\ status = EXIT_SUCCESS => Issued(0)
  /\ argc = 3 => \A k \in 0..1 : sent[k] <= 1 /\ (sent[k] = 1 => Issued(k))

\* A forward lookup has ended in success after both of its queries went out.
C12_Witness ==
  /\ argv1 = HostTarget
  /\ argc = 3
  /\ status = EXIT_SUCCESS
  /\ sent = [k \in 0..1 |-> 1]
  /\ query[0].type = ns_t_a
  /\ query[1].type = ns_t_aaaa

\* A literal has been looked up with its single pointer query.
C12_WitnessPtr ==
  /\ argv1 = V4Target
  /\ status = EXIT_SUCCESS
  /\ query[0] = [id |-> <<7, 1>>, type |-> ns_t_ptr,
                 name |-> "1.2.0.192.in-addr.arpa"]

\* ------------------------------------------------------------ C13

\* Whether the record of the k-th callback lies inside the datagram, and its
\* 16-bit type field.
RecordInside(k) == calls[k].data + calls[k].len <= Len(response)
TypeField(k) ==
  response[calls[k].data - 10 + 1] * 256 + response[calls[k].data - 9 + 1]

\* The cursor after the record of the k-th callback.
CursorAfter(k) == IF k < Len(calls) THEN calls[k + 1].as ELSE p

\* C13: for every answer record whose 16-bit type is none of 1, 5, 12 and
\* 28 the parser emits nothing, and when it goes on, the cursor stands
\* behind the record's fixed fields and data.
C13_OtherTypesSkipped ==
  \A k \in 1..Len(calls) :
    RecordInside(k) /\ TypeField(k) \notin {1, 5, 12, 28} =>
      /\ ~calls[k].printed
      /\ calls[k].rv = 0 => CursorAfter(k) = calls[k].data + calls[k].len

\* ------------------------------------------------------------ C14

\* dns_parse has returned success and main has not yet looked at it.
ParsedOk == pc = "decode" /\ ret = 0

\* The counts the header of the response gives.
HeaderQuestions == response[5] * 256 + response[6]
HeaderAnswers == response[7] * 256 + response[8]

\* C14: when dns_parse succeeds on a response with q questions and n
\* answers, the callback has run exactly n times, each time with success,
\* on consecutive records in the order of the answer section: the first
\* one starts behind the q question entries (of at least 5 bytes each),
\* each next one where the previous record's data ends, and the cursor
\* stands at the end of the last.
C14_OneCallPerAnswer ==
  ParsedOk =>
    /\ Len(calls) = HeaderAnswers
    /\ \A k \in 1..Len(calls) :
         /\ calls[k].rv = 0
         /\ calls[k].as < calls[k].data
         /\ calls[k].as >= 12 + 5 * HeaderQuestions
         /\ CursorAfter(k) = calls[k].data + calls[k].len
    /\ calls = <<>> => p >= 12 + 5 * HeaderQuestions

\* A response with one question and two answers has been parsed, with one
\* callback for the address record and one for the canonical name.
C14_Witness ==
  /\ ParsedOk
  /\ HeaderQuestions = 1
  /\ HeaderAnswers = 2
  /\ Len(calls) = 2
  /\ calls[1].rr = RR_TYPE_A
  /\ calls[2].rr = RR_TYPE_CNAME
  /\ p = rlen

\* ------------------------------------------------------------ C15

\* C15: a response whose header counts add up to more than 64 is rejected
\* before any entry is walked (nothing behind the counts has been read,
\* the cursor was never set, no callback has run), and while the parser
\* walks entries at most 64 are still to be consumed.
C15_SanityBound ==
  /\ pc \in {"walk", "decode"} /\ Len(response) >= 12
       /\ HeaderQuestions + HeaderAnswers > 64 =>
         /\ pc = "decode"
         /\ ret < 0
         /\ maxRead <= 7
         /\ p = 0
         /\ calls = <<>>
  /\ pc = "walk" =>
       /\ qdcount >= 0
       /\ ancount >= 0
       /\ qdcount + ancount <= 64

\* A response announcing 65 entries, its response code zero, has been
\* rejected on its counts.
C15_Witness ==
  /\ pc = "decode"
  /\ ret < 0
  /\ Len(response) >= 12
  /\ response[4] % 16 = 0
  /\ HeaderQuestions + HeaderAnswers = 65
  /\ maxRead = 7

\* A response announcing 64 entries is being walked.
C15_WitnessAccepted == pc = "walk" /\ qdcount + ancount = 64

\* ------------------------------------------------------------ C16

\* A step that sends no datagram, hands no query to an exchange, runs no
\* callback, emits no record and does not end the process in success.
Quiet ==
  /\ sent' = sent
  /\ \A k \in 0..1 : "send" \in steps'[k] => "send" \in steps[k]
  /\ Len(calls') <= Len(calls)
  /\ Len(emitted') <= Len(emitted)
  /\ status' # EXIT_SUCCESS

\* A fatal condition other than a build failure has occurred: every
\* diagnostic of the program reports one, the exchange has returned a
\* failure, a wait has run out, or the parser has returned a failure.
OtherFatal ==
  \/ stderr # <<>>
  \/ timedOut
  \/ rlen < 0
  \/ pc = "decode" /\ ret < 0

\* The build of some query of the operation has failed.
SomeBuildFailed == Built /\ (qlen < 0 \/ (qcount = 2 /\ qlen2 < 0))

\* The build of the query whose turn it is has failed.
CurrentBuildFailed ==
  Built /\ (qlen < 0 \/ (qcount = 2 /\ i = 1 /\ qlen2 < 0))

\* C16 as stated: once a fatal condition has occurred, a build failure
\* included, no datagram is sent, no record is emitted and the process does
\* not exit with success.
C16_AbortsAtOccurrence == [][SomeBuildFailed \/ OtherFatal => Quiet]_vars

\* C16, amended: the same from the point where the condition is acted on.
\* A build failure of the second query is looked at only when its turn
\* comes, after the first query's exchange and output; every condition is
\* followed by an exit with failure, never by one with success.
C16_AbortsAtDetection ==
  /\ [][CurrentBuildFailed \/ OtherFatal => Quiet]_vars
  /\ [](SomeBuildFailed \/ OtherFatal => status # EXIT_SUCCESS)

\* The first query went out and was answered, and the operation then ended
\* on the second query's failed build.
C16_Witness ==
  /\ pc = "exit"
  /\ status = EXIT_FAILURE
  /\ i = 1
  /\ qlen2 < 0
  /\ LastDiag = MsgBuild
  /\ "parsed" \in steps[0]
  /\ ~Issued(1)

\* ------------------------------------------------------------ C17

\* res_ssend is on its way out with a failure: all it reports is the
\* diagnostic it has just written and the return value -1.
SsendFailing == pc \in {"err_close", "err"}

\* C17: what the direct exchange reports on a timeout it reports for no
\* other failure: when it fails with the timeout's diagnostic, the wait has
\* run into its bound.
C17_TimeoutDistinct == SsendFailing /\ LastDiag = MsgPoll => timedOut

\* ------------------------------------------------------------ C18

\* C18: the data of every record handed to the callback lies inside the
\* message (offset + rdlength <= rlen), and the bytes the callback reads at
\* the data to print an address (4 for type 1, 16 for type 28) lie inside
\* the record's data, hence inside the first rlen bytes.
C18_DataInsideMessage ==
  \A k \in 1..Len(calls) :
    /\ calls[k].data + calls[k].len <= rlen
    /\ calls[k].nread <= calls[k].len
    /\ calls[k].data + calls[k].nread <= rlen

=============================================================================
